---- MODULE Spec2Model ----
(***************************************************************************)
(* Verification model of the policy-parameter projection script ppp.py    *)
(* and of the payroll-tax-exemption cookbook recipe ptax_exemp.py.         *)
(*                                                                         *)
(* Numbers.  A Python number is a record [n, d, big].  An ordinary amount  *)
(* is the exact rational n / d in lowest terms (d > 0, big empty).  The    *)
(* ordinary inputs the model draws (whole or dyadic amounts, dyadic        *)
(* inflation rates, small granularities) are exactly representable as      *)
(* floats and all their products stay far below 2^53, so the float         *)
(* computation of the source and the exact computation of the model agree  *)
(* on them.                                                                *)
(*                                                                         *)
(* The "infinity" sentinel 9e99 of the source, and what the source         *)
(* computes from it, is a huge positive integer: big holds its limbs in    *)
(* base 2^15, least significant first (n = d = 0).  On these the model     *)
(* computes what Python computes: float products and quotients are         *)
(* rounded to 53 significant bits, ties to even; math.floor and math.ceil  *)
(* give a Python int, whose product with an int granularity is exact and   *)
(* whose product with a float granularity is a float again.                *)
(*                                                                         *)
(* The amounts of ptax_exemp.py are binary64 floats held bit for bit, as   *)
(* records [neg, m, e]: an exemption rounded to the cent is in general not *)
(* a dyadic number, and what is computed from it is the float result.      *)
(***************************************************************************)
EXTENDS Integers, Sequences, FiniteSets, TLC

----------------------------------------------------------------------------
(* Ordinary amounts: exact rational arithmetic                             *)

Abs(x) == IF x < 0 THEN -x ELSE x

RECURSIVE GCD(_, _)
GCD(a, b) == IF b = 0 THEN a ELSE GCD(b, a % b)

R(n, d) ==
  LET g == GCD(Abs(n), d)
  IN  [n |-> n \div g, d |-> d \div g, big |-> <<>>]

RInt(k) == [n |-> k, d |-> 1, big |-> <<>>]

Floor(a) == a.n \div a.d

Ceil(a) == -((-a.n) \div a.d)

----------------------------------------------------------------------------
(* Huge integers: limbs in base 2^15, least significant first              *)

LimbBits == 15
Base == 2 ^ LimbBits

\* significant bits of a Python float
Precision == 53

RECURSIVE BNorm(_)
\* without leading zero limbs
BNorm(s) ==
  IF s # <<>> /\ s[Len(s)] = 0 THEN BNorm(SubSeq(s, 1, Len(s) - 1)) ELSE s

RECURSIVE BMulC(_, _, _)
BMulC(s, k, c) ==
  IF s = <<>>
  THEN (IF c = 0 THEN <<>> ELSE <<c % Base>> \o BMulC(<<>>, k, c \div Base))
  ELSE LET t == Head(s) * k + c
       IN  <<t % Base>> \o BMulC(Tail(s), k, t \div Base)

\* s * k for 0 < k < 2^16
BMul(s, k) == BMulC(s, k, 0)

RECURSIVE BDivMod(_, _)
\* quotient and remainder of s by k, for 0 < k < 2^16
BDivMod(s, k) ==
  IF s = <<>> THEN [q |-> <<>>, r |-> 0]
  ELSE LET hi  == BDivMod(Tail(s), k)
           cur == hi.r * Base + Head(s)
       IN  [q |-> <<cur \div k>> \o hi.q, r |-> cur % k]

RECURSIVE BAdd(_, _)
\* s + c for 0 <= c < Base
BAdd(s, c) ==
  IF c = 0 THEN s
  ELSE IF s = <<>> THEN <<c>>
  ELSE LET t == Head(s) + c
       IN  <<t % Base>> \o BAdd(Tail(s), t \div Base)

RECURSIVE BSub(_, _)
\* s - c for 0 <= c < Base <= s
BSub(s, c) ==
  IF c = 0 THEN s
  ELSE LET t == Head(s) - c
       IN  IF t >= 0 THEN <<t>> \o Tail(s) ELSE <<t + Base>> \o BSub(Tail(s), 1)

RECURSIVE BLtFrom(_, _, _)
BLtFrom(a, b, i) ==
  IF i = 0 THEN FALSE
  ELSE IF a[i] # b[i] THEN a[i] < b[i]
  ELSE BLtFrom(a, b, i - 1)

BLt(a, b) == IF Len(a) # Len(b) THEN Len(a) < Len(b) ELSE BLtFrom(a, b, Len(a))

RECURSIVE Bits(_)
Bits(k) == IF k = 0 THEN 0 ELSE 1 + Bits(k \div 2)

BitLen(s) == IF s = <<>> THEN 0 ELSE LimbBits * (Len(s) - 1) + Bits(s[Len(s)])

\* s * 2^k
ShiftLeft(s, k) ==
  [i \in 1 .. (k \div LimbBits) |-> 0] \o BMul(s, 2 ^ (k % LimbBits))

\* the quotient dm of the limbs of s above the lowest `limbs` ones, and
\* whether a 1 bit was left behind
Shifted(s, limbs, dm) ==
  [q |-> BNorm(dm.q), sticky |-> dm.r # 0 \/ \E i \in 1 .. limbs : s[i] # 0]

\* s \div 2^k, and whether a 1 bit was shifted out
ShiftRight(s, k) ==
  Shifted(s, k \div LimbBits,
          BDivMod(SubSeq(s, k \div LimbBits + 1, Len(s)), 2 ^ (k % LimbBits)))

\* whether sh.q, which ends in the first bit to drop, rounds up: more than
\* half, or exactly half with an odd kept part
RoundsUp(sh, sticky) ==
  sh.q[1] % 2 = 1 /\ (sh.sticky \/ sticky \/ (sh.q[1] \div 2) % 2 = 1)

\* s without its lowest drop bits, rounded, given sh = s \div 2^(drop - 1)
RoundAt(sh, sticky, drop) ==
  ShiftLeft(ShiftRight(IF RoundsUp(sh, sticky) THEN BAdd(sh.q, 1) ELSE sh.q, 1).q,
            drop)

RoundTo(s, sticky, drop) ==
  IF drop <= 0 THEN s ELSE RoundAt(ShiftRight(s, drop - 1), sticky, drop)

\* the float nearest to s (or to a number between s and s + 1 when sticky),
\* ties to even
RoundFloat(s, sticky) == RoundTo(s, sticky, BitLen(s) - Precision)

Big(s) == [n |-> 0, d |-> 0, big |-> s]

IsBig(x) == x.big # <<>>

----------------------------------------------------------------------------
(* Python arithmetic on both kinds of number                               *)

\* the exact product of two ordinary amounts
QMul(a, b) ==
  R((a.n \div GCD(Abs(a.n), b.d)) * (b.n \div GCD(Abs(b.n), a.d)),
    (a.d \div GCD(Abs(b.n), a.d)) * (b.d \div GCD(Abs(a.n), b.d)))

\* the float product of the huge float s and the ordinary positive amount f,
\* whose denominator is a power of two
FMul(s, f) ==
  Big(BNorm(BDivMod(RoundFloat(BMul(RoundFloat(s, FALSE), f.n), FALSE), f.d).q))

\* a * b of two floats (a Python int operand is converted to float first)
RMul(a, b) ==
  IF IsBig(a) THEN FMul(a.big, b)
  ELSE IF IsBig(b) THEN FMul(b.big, a)
  ELSE QMul(a, b)

\* the float quotient of the huge float s by the ordinary amount f, given the
\* quotient and remainder dm of s * f.d by f.n
FDiv(dm) == Big(RoundFloat(BNorm(dm.q), dm.r # 0))

\* a / b of floats, b an ordinary positive amount
RDiv(a, b) ==
  IF IsBig(a)
  THEN FDiv(BDivMod(BMul(a.big, b.d), b.n))
  ELSE QMul(a, [n |-> b.d, d |-> b.n, big |-> <<>>])

RAdd(a, b) ==
  R(a.n * (b.d \div GCD(a.d, b.d)) + b.n * (a.d \div GCD(a.d, b.d)),
    (a.d \div GCD(a.d, b.d)) * b.d)

RSub(a, b) == RAdd(a, [n |-> -b.n, d |-> b.d, big |-> <<>>])

\* a < b
RLt(a, b) ==
  IF IsBig(a) THEN IsBig(b) /\ BLt(a.big, b.big)
  ELSE IF IsBig(b) THEN TRUE
  ELSE IF Floor(a) # Floor(b)
  THEN Floor(a) < Floor(b)
  ELSE (a.n % a.d) * b.d < (b.n % b.d) * a.d

\* min(a, b)
RMin(a, b) == IF RLt(b, a) THEN b ELSE a

\* val % g of Python for a float val and a positive g: the exact remainder
\* in [0, g)
RMod(a, g) ==
  IF IsBig(a)
  THEN R(BDivMod(BMul(a.big, g.d), g.n).r, g.d)
  ELSE R((a.n * g.d) % (g.n * a.d), a.d * g.d)

\* math.floor(x) and math.ceil(x): a Python int
PyFloor(x) == IF IsBig(x) THEN x ELSE RInt(Floor(x))
PyCeil(x) == IF IsBig(x) THEN x ELSE RInt(Ceil(x))

\* k * g for a Python int k: exact when g is an int, a float product when g
\* is a float
Times(k, g, gint) ==
  IF IsBig(k) /\ gint THEN Big(BMul(k.big, g.n)) ELSE RMul(k, g)

\* x - g for x = k * g: exact between ints; between floats the huge x
\* absorbs the granularity
Minus(x, g, gint) ==
  IF IsBig(x)
  THEN (IF gint THEN Big(BNorm(BSub(x.big, g.n))) ELSE x)
  ELSE RSub(x, g)

\* x * scale split at the nearest whole below: the whole, and twice the rest
\* compared with 1
Scaled(x, scale) ==
  [lo   |-> Floor(x) * scale + ((x.n % x.d) * scale) \div x.d,
   rest |-> R(2 * (((x.n % x.d) * scale) % x.d), x.d)]

\* the whole that t rounds to: the nearest, an exact tie going to the even one
HalfEven(t) ==
  IF RLt(t.rest, RInt(1)) THEN t.lo
  ELSE IF RLt(RInt(1), t.rest) THEN t.lo + 1
  ELSE IF t.lo % 2 = 0 THEN t.lo ELSE t.lo + 1

\* round(x, ndigits) of Python for a float x: nearest multiple of 1/scale,
\* an exact tie going to the even multiple; a huge float is a whole number
PyRound(x, scale) ==
  IF IsBig(x) THEN x ELSE R(HalfEven(Scaled(x, scale)), scale)

----------------------------------------------------------------------------
(* binary64 floats of ptax_exemp.py.  A float is the record [neg, m, e]    *)
(* that stands for (-1)^neg * m * 2^e, with m the limbs of an odd whole    *)
(* number; zero is m = <<>>, e = 0, neg = FALSE.  The X operators compute  *)
(* exactly; the D operators are the float operations of Python and numpy:  *)
(* the exact result rounded to 53 significant bits, ties to even.  The     *)
(* amounts of the recipe stay far from the overflow and underflow          *)
(* thresholds of the format, which are not modelled.                       *)

Double(neg, m, e) == [neg |-> neg, m |-> m, e |-> e]

DZero == Double(FALSE, <<>>, 0)

RECURSIVE Limbs(_)
\* the limbs of k >= 0
Limbs(k) == IF k = 0 THEN <<>> ELSE <<k % Base>> \o Limbs(k \div Base)

RECURSIVE TrailingZeros(_)
\* the number of 0 bits that k > 0 ends in
TrailingZeros(k) == IF k % 2 = 1 THEN 0 ELSE 1 + TrailingZeros(k \div 2)

RECURSIVE ZeroLimbs(_)
\* the number of 0 limbs that s # 0 ends in
ZeroLimbs(s) == IF Head(s) # 0 THEN 0 ELSE 1 + ZeroLimbs(Tail(s))

StripBits(neg, s, e, tz) == Double(neg, BNorm(BDivMod(s, 2 ^ tz).q), e + tz)

StripLimbs(neg, s, e, z) ==
  StripBits(neg, SubSeq(s, z + 1, Len(s)), e + LimbBits * z, TrailingZeros(s[z + 1]))

\* the record of (-1)^neg * s * 2^e
Canon(neg, s, e) ==
  IF BNorm(s) = <<>> THEN DZero ELSE StripLimbs(neg, BNorm(s), e, ZeroLimbs(BNorm(s)))

RECURSIVE BAddC(_, _, _)
\* a + b + c for a carry c
BAddC(a, b, c) ==
  IF a = <<>> /\ b = <<>> THEN (IF c = 0 THEN <<>> ELSE <<c>>)
  ELSE <<((IF a = <<>> THEN 0 ELSE Head(a)) + (IF b = <<>> THEN 0 ELSE Head(b)) + c) % Base>>
       \o BAddC(IF a = <<>> THEN <<>> ELSE Tail(a), IF b = <<>> THEN <<>> ELSE Tail(b),
                ((IF a = <<>> THEN 0 ELSE Head(a)) + (IF b = <<>> THEN 0 ELSE Head(b)) + c)
                  \div Base)

RECURSIVE BSubC(_, _, _)
\* a - b - c for a borrow c and a >= b + c
BSubC(a, b, c) ==
  IF a = <<>> THEN <<>>
  ELSE IF Head(a) - (IF b = <<>> THEN 0 ELSE Head(b)) - c >= 0
  THEN <<Head(a) - (IF b = <<>> THEN 0 ELSE Head(b)) - c>>
       \o BSubC(Tail(a), IF b = <<>> THEN <<>> ELSE Tail(b), 0)
  ELSE <<Head(a) - (IF b = <<>> THEN 0 ELSE Head(b)) - c + Base>>
       \o BSubC(Tail(a), IF b = <<>> THEN <<>> ELSE Tail(b), 1)

RECURSIVE BMulBig(_, _)
\* a * b
BMulBig(a, b) ==
  IF b = <<>> THEN <<>> ELSE BAddC(BMul(a, Head(b)), <<0>> \o BMulBig(a, Tail(b)), 0)

\* a Python int, and the dyadic amount n / 2^j, as floats
DInt(k) == Canon(k < 0, Limbs(Abs(k)), 0)
Dyadic(n, j) == Canon(n < 0, Limbs(Abs(n)), -j)

\* x + y of the whole numbers (-1)^an * x and (-1)^bn * y, times 2^e
XSigned(an, x, bn, y, e) ==
  IF an = bn THEN Canon(an, BAddC(x, y, 0), e)
  ELSE IF BLt(x, y) THEN Canon(bn, BSubC(y, x, 0), e)
  ELSE Canon(an, BSubC(x, y, 0), e)

XAligned(a, b, e) ==
  XSigned(a.neg, BNorm(ShiftLeft(a.m, a.e - e)), b.neg, BNorm(ShiftLeft(b.m, b.e - e)), e)

XAdd(a, b) == XAligned(a, b, IF a.e < b.e THEN a.e ELSE b.e)

XNeg(a) == IF a.m = <<>> THEN a ELSE Double(~a.neg, a.m, a.e)

XMul(a, b) ==
  IF a.m = <<>> \/ b.m = <<>> THEN DZero
  ELSE Canon(a.neg # b.neg, BMulBig(a.m, b.m), a.e + b.e)

\* the float nearest to x
Round53(x) == Canon(x.neg, RoundFloat(x.m, FALSE), x.e)

\* a + b, a - b, a * b and a < b of floats
DAdd(a, b) ==
  IF a.m = <<>> THEN b
  ELSE IF b.m = <<>> THEN a
  ELSE Round53(XAdd(a, b))

DSub(a, b) == DAdd(a, XNeg(b))

DMul(a, b) == IF a.m = <<>> \/ b.m = <<>> THEN DZero ELSE Round53(XMul(a, b))

DLt(a, b) == a # b /\ XAdd(a, XNeg(b)).neg

\* the float nearest to the quotient, given the quotient and remainder dm of
\* the dividend by the divisor
DQuotient(neg, dm, e) == Canon(neg, RoundFloat(BNorm(dm.q), dm.r # 0), e)

\* a / b of floats, for a divisor b whose odd part is below 2^15
DDiv(a, b) ==
  IF a.m = <<>> THEN DZero
  ELSE DQuotient(a.neg # b.neg,
                 BDivMod(ShiftLeft(a.m, Precision + 2 + LimbBits), b.m[1]),
                 a.e - b.e - (Precision + 2 + LimbBits))

\* np.rint(a): the nearest whole number, a tie going to the even one
DRint(a) ==
  IF a.e >= 0 THEN a
  ELSE IF -a.e > BitLen(a.m) THEN DZero
  ELSE Canon(a.neg, RoundTo(a.m, FALSE, -a.e), a.e)

\* np.round(x, 2) of numpy: multiply by 100.0, rint, divide by 100.0 (an int
\* x comes back as it is, which is the same number)
np_round(x) == DDiv(DRint(DMul(x, DInt(100))), DInt(100))

----------------------------------------------------------------------------
(* Constants of ppp.py                                                     *)

syear == 2013
pyear == 2017
fyear == 2026

\* 9e99 = 4632801830521226 * 2^280, the mantissa in limbs
CapMantissa == <<18826, 30424, 22024, 131>>
CapExponent == 280
Cap == Big(ShiftLeft(CapMantissa, CapExponent))

skip_list == {"_II_brk7", "_PT_brk7"}

\* a parameter value of one year: a number, or a list with one number per column
Scalar(x) == [list |-> FALSE, x |-> x]
List(xs) == [list |-> TRUE, xs |-> xs]

\* the ifactor argument of the rounding functions: a dict by year, or a float
Dict(m) == [dict |-> TRUE, map |-> m]
Float(x) == [dict |-> FALSE, x |-> x]

----------------------------------------------------------------------------
(* Bounds and inputs of the model                                          *)

MaxCols == 2

\* sorted() over the parameter names the model uses (ASCII order)
NameOrder == <<"_AMT_em", "_II_brk7", "_II_em", "_STD">>

Years == syear .. fyear

\* historical amount of a year: pre up to pyear, then post growing by step
Amount(pre, post, step, y) ==
  IF y <= pyear THEN pre ELSE post + step * (y - pyear - 1)

ScalarHistory(pre, post, step) ==
  [i \in 1 .. (fyear - syear + 1) |->
     Scalar(RInt(Amount(pre, post, step, syear + i - 1)))]

ListHistory(pre, post, step) ==
  [i \in 1 .. (fyear - syear + 1) |->
     List([c \in 1 .. MaxCols |-> R(c * Amount(pre, post, step, syear + i - 1), 2)])]

\* the sentinel 9e99 in every year
SentinelHistory == [i \in 1 .. (fyear - syear + 1) |-> Scalar(Cap)]

Grid(len) == [c \in 1 .. len |-> RInt(50 * c)]

\* a parameter record without and with the optional round_dir key;
\* round_to_int tells whether the entries of round_to are Python ints (JSON
\* numbers written without a fraction) or floats
Rec(ind, val, yrs, rto, rint) ==
  [indexed |-> ind, value |-> val, value_yrs |-> yrs, round_to |-> rto,
   round_to_int |-> rint]

RecDir(ind, val, yrs, rto, rint, dir) ==
  [indexed |-> ind, value |-> val, value_yrs |-> yrs, round_to |-> rto,
   round_to_int |-> rint, round_dir |-> dir]

Templates ==
  { RecDir(TRUE, ScalarHistory(4050, 2020, 35), Years, Grid(1), TRUE, "down"),
    RecDir(TRUE, ScalarHistory(1050, 1020, 5), Years, <<RInt(100)>>, FALSE, "nearest"),
    RecDir(TRUE, SentinelHistory, Years, <<RInt(100)>>, TRUE, "nearest"),
    RecDir(TRUE, SentinelHistory, Years, Grid(1), FALSE, "down"),
    Rec(TRUE, SentinelHistory, Years, <<R(1, 100)>>, FALSE),
    Rec(TRUE, ScalarHistory(1025, 205, 1), Years, <<R(1, 100)>>, FALSE),
    RecDir(TRUE, ListHistory(4050, 2025, 35), Years, Grid(MaxCols), TRUE, "down"),
    RecDir(TRUE, ListHistory(1050, 1025, 5), Years, Grid(MaxCols), FALSE, "nearest"),
    RecDir(TRUE, ListHistory(1050, 1025, 5), Years, Grid(1), TRUE, "nearest"),
    RecDir(TRUE, ListHistory(4050, 2025, 35), Years, Grid(1), TRUE, "down"),
    Rec(TRUE, ListHistory(1027, 205, 1), Years, <<R(1, 100)>>, FALSE),
    RecDir(FALSE, ScalarHistory(4050, 2020, 35), Years, Grid(1), TRUE, "down"),
    RecDir(TRUE, ScalarHistory(4050, 2020, 35), syear .. (fyear - 1), Grid(1), TRUE, "down") }

\* the second free parameter repeats the first or is one of two fixed records
Companions(t) ==
  { t,
    RecDir(TRUE, ScalarHistory(4050, 2020, 35), Years, Grid(1), TRUE, "down"),
    RecDir(TRUE, ListHistory(1050, 1025, 5), Years, Grid(MaxCols), FALSE, "nearest") }

\* the parameter tables: two free parameters, and between them in sorted
\* order possibly a parameter of skip_list or a third parameter
KeySets ==
  { {"_AMT_em", "_STD"},
    {"_AMT_em", "_II_brk7", "_STD"},
    {"_AMT_em", "_II_em", "_STD"} }

Tables ==
  { [n \in ks |->
       IF n = "_AMT_em" THEN a
       ELSE IF n = "_STD" THEN b
       ELSE IF n = "_II_brk7"
       THEN RecDir(TRUE, SentinelHistory, Years, <<RInt(1)>>, TRUE, "down")
       ELSE RecDir(TRUE, ListHistory(3000, 1515, 10), Years, Grid(MaxCols), TRUE, "down")] :
      <<ks, a, b>> \in
        { <<k, t, c>> \in KeySets \X Templates \X Templates : c \in Companions(t) } }

\* inflation-rate series by (year - syear): complete ones and one too short
RateSeries ==
  { [i \in 1 .. (fyear - syear) |-> RInt(0)],
    [i \in 1 .. (fyear - syear) |-> IF i % 2 = 0 THEN R(1, 2) ELSE RInt(0)],
    [i \in 1 .. (fyear - syear + 1) |-> R(1, 2)],
    [i \in 1 .. (fyear - syear - 3) |-> R(1, 2)] }

BaseYears == {pyear, pyear + 2, fyear - 1, fyear}

----------------------------------------------------------------------------
(* State of a run of ppp.py: its module-level names, the two output files, *)
(* the position of the script and of its loops, and the exception that     *)
(* ended it.                                                               *)

VARIABLES
  byear, pdata, irate,
  pc, err,
  keys_it, reverting_params,
  old, new,
  final_ifactor, ifactor, factor,
  pname, year, idx,
  value, bvalue, pvalue, val_round, val,
  params_it, year_it, idx_it,
  once, twice,
  current_year, ptax_em_active, ptax_em_param, pol, recs

vars ==
  <<byear, pdata, irate, pc, err, keys_it, reverting_params, old, new,
    final_ifactor, ifactor, factor, pname, year, idx, value, bvalue, pvalue,
    val_round, val, params_it, year_it, idx_it, once, twice,
    current_year, ptax_em_active, ptax_em_param, pol, recs>>

\* the customized Calculator of ptax_exemp.py, which ppp.py does not touch
calc == <<current_year, ptax_em_active, ptax_em_param, pol, recs>>

NoCalculator ==
  /\ current_year = 0
  /\ ptax_em_active = FALSE
  /\ ptax_em_param = <<>>
  /\ pol = <<>>
  /\ recs = <<>>

\* a module-level name that no statement has assigned yet
Unbound == [n |-> 0, d |-> 0, big |-> <<>>]

NoError == [type |-> "none", line |-> 0]
Unopened == [state |-> "unopened", lines |-> <<>>]
Header(p) == [kind |-> "header", name |-> p, year |-> 0, value |-> Scalar(RInt(0))]
Line(y, v) == [kind |-> "line", name |-> "", year |-> y, value |-> v]
Write(file, l) == [file EXCEPT !.lines = Append(@, l)]

\* value[year - syear] and irate[year - syear] of the 0-based Python lists
AtYear(list, y) == list[y - syear + 1]

----------------------------------------------------------------------------
(* Rounding functions of ppp.py.  Both read the module-level names pname,  *)
(* idx and year besides their arguments.                                   *)

\* the 0-based subscript of round_to that a rounding function uses
RoundToIndex(v) == IF v.list THEN idx ELSE 0

\* whether that subscript is out of range, so that round_to[...] raises IndexError
RoundToMissing(pd, v) == RoundToIndex(v) >= Len(pd[pname].round_to)

\* ifactor[year] if isinstance(ifactor, dict) else ifactor
FactorOf(ifac) == IF ifac.dict THEN ifac.map[year] ELSE ifac.x

\* (mutant) round_down without the cap
round_down_unclamped(pd, v, ifac) ==
  Times(PyFloor(RDiv(RMul(IF v.list THEN v.xs[idx + 1] ELSE v.x, FactorOf(ifac)),
                     pd[pname].round_to[RoundToIndex(v) + 1])),
        pd[pname].round_to[RoundToIndex(v) + 1], pd[pname].round_to_int)

\* math.floor(val / round_to) * round_to of lines 78 and 85
FloorMultiple(vl, g, gint) == Times(PyFloor(RDiv(vl, g)), g, gint)

round_down(pd, v, ifac) ==
  LET round_to == pd[pname].round_to
      gint == pd[pname].round_to_int
  IN  IF v.list
      THEN RMin(FloorMultiple(RMul(v.xs[idx + 1], FactorOf(ifac)),
                              round_to[RoundToIndex(v) + 1], gint), Cap)
      ELSE RMin(FloorMultiple(RMul(v.x, FactorOf(ifac)),
                              round_to[RoundToIndex(v) + 1], gint), Cap)

\* math.ceil(val / round_to) * round_to of lines 99 and 109
CeilMultiple(vl, g, gint) == Times(PyCeil(RDiv(vl, g)), g, gint)

\* the test of lines 100 and 110:
\* val % round_to < round_to / 2 and val % round_to > 0
BelowHalf(vl, g) ==
  RLt(RMod(vl, g), RDiv(g, RInt(2))) /\ RLt(RInt(0), RMod(vl, g))

\* lines 99-102 for the product vl
NearestColumn(vl, g, gint) ==
  IF BelowHalf(vl, g)
  THEN RMin(Minus(CeilMultiple(vl, g, gint), g, gint), Cap)
  ELSE CeilMultiple(vl, g, gint)

\* lines 109-111 for the product vl
NearestScalar(vl, g, gint) ==
  IF BelowHalf(vl, g)
  THEN Minus(CeilMultiple(vl, g, gint), g, gint)
  ELSE CeilMultiple(vl, g, gint)

round_nearest(pd, v, ifac) ==
  LET round_to == pd[pname].round_to
      gint == pd[pname].round_to_int
  IN  IF v.list
      THEN RMin(NearestColumn(RMul(v.xs[idx + 1], FactorOf(ifac)),
                              round_to[RoundToIndex(v) + 1], gint), Cap)
      ELSE RMin(NearestScalar(RMul(v.x, FactorOf(ifac)),
                              round_to[RoundToIndex(v) + 1], gint), Cap)

\* 'round_dir' in pdata[pname].keys()
HasDir(pd) == "round_dir" \in DOMAIN pd[pname]

\* whether round_dir is one of the two names the projection loop tests for
Named(pd) == pd[pname].round_dir \in {"down", "nearest"}

\* the round_dir dispatch for one number; stale is what the assigned name
\* keeps when round_dir is neither 'down' nor 'nearest'
Dispatch(pd, v, ifac, stale) ==
  IF pd[pname].round_dir = "down" THEN round_down(pd, v, ifac)
  ELSE IF pd[pname].round_dir = "nearest" THEN round_nearest(pd, v, ifac)
  ELSE stale

\* the line of the round_to[...] subscript that raises
RoundLine(pd, v) ==
  IF pd[pname].round_dir = "down"
  THEN (IF v.list THEN 78 ELSE 85)
  ELSE (IF v.list THEN 99 ELSE 109)

\* min(9e99, round(x, 2)) and min(9e99, round(x, 0))
DefaultIntermediate(x) == RMin(Cap, PyRound(x, 100))
DefaultFinal(x) == RMin(Cap, PyRound(x, 1))

----------------------------------------------------------------------------
(* The run of ppp.py, statement by statement                               *)

Init ==
  /\ byear \in BaseYears
  /\ pdata \in Tables
  /\ irate \in RateSeries
  /\ pc = "assert"
  /\ err = NoError
  /\ keys_it = <<>>
  /\ reverting_params = <<>>
  /\ old = Unopened
  /\ new = Unopened
  /\ final_ifactor = RInt(0)
  /\ ifactor = <<>>
  /\ factor = RInt(0)
  /\ pname = ""
  /\ year = 0
  /\ idx = 0
  /\ value = Scalar(RInt(0))
  /\ bvalue = Scalar(RInt(0))
  /\ pvalue = Scalar(RInt(0))
  /\ val_round = Unbound
  /\ val = Unbound
  /\ params_it = <<>>
  /\ year_it = 0
  /\ idx_it = 0
  /\ once = RInt(0)
  /\ twice = RInt(0)
  /\ NoCalculator

inputs == <<byear, pdata, irate, once, twice, calc>>
selection == <<keys_it, reverting_params>>
factors == <<final_ifactor, ifactor, factor>>
scratch == <<value, bvalue, pvalue, val_round, val>>

Raise(type, line) ==
  /\ pc' = "aborted"
  /\ err' = [type |-> type, line |-> line]

SortedKeys(pd) == SelectSeq(NameOrder, LAMBDA n : n \in DOMAIN pd)

\* (mutant) the test of lines 35-36 without the skip_list
RevertingNoSkip(pd, p) ==
  /\ pd[p].indexed
  /\ fyear \in pd[p].value_yrs

\* the test of lines 35-36 on one parameter
Reverting(pd, p) ==
  /\ pd[p].indexed
  /\ fyear \in pd[p].value_yrs
  /\ p \notin skip_list

\* (mutant) the test of line 23 with the bounds included
YearsOrderedWeak == byear >= pyear /\ byear <= fyear

\* the test of line 23
YearsOrdered == byear > pyear /\ byear < fyear

\* lines 21-23, and the start of the loop of line 33
AssertYears ==
  /\ pc = "assert"
  /\ IF YearsOrdered
     THEN /\ pc' = "select"
          /\ keys_it' = SortedKeys(pdata)
          /\ err' = err
     ELSE /\ Raise("AssertionError", 23)
          /\ keys_it' = keys_it
  /\ UNCHANGED <<inputs, reverting_params, old, new, factors, pname, year, idx,
                 scratch, params_it, year_it, idx_it>>

\* one iteration of the loop of lines 33-37
SelectParam ==
  /\ pc = "select"
  /\ keys_it # <<>>
  /\ pname' = Head(keys_it)
  /\ keys_it' = Tail(keys_it)
  /\ reverting_params' =
       IF Reverting(pdata, Head(keys_it))
       THEN Append(reverting_params, Head(keys_it))
       ELSE reverting_params
  /\ UNCHANGED <<inputs, pc, err, old, new, factors, year, idx, scratch,
                 params_it, year_it, idx_it>>

\* line 41, and the start of the loop of line 42
OpenOld ==
  /\ pc = "select"
  /\ keys_it = <<>>
  /\ old' = [state |-> "open", lines |-> <<>>]
  /\ params_it' = reverting_params
  /\ pc' = "old"
  /\ UNCHANGED <<inputs, err, selection, new, factors, pname, year, idx,
                 scratch, year_it, idx_it>>

RECURSIVE OldLines(_, _, _)
OldLines(pd, p, y) ==
  IF y > fyear THEN <<>>
  ELSE <<Line(y, AtYear(pd[p].value, y))>> \o OldLines(pd, p, y + 1)

\* one iteration of the loop of lines 42-47
WriteOld ==
  /\ pc = "old"
  /\ params_it # <<>>
  /\ pname' = Head(params_it)
  /\ params_it' = Tail(params_it)
  /\ old' = [old EXCEPT !.lines = @ \o <<Header(pname')>> \o OldLines(pdata, pname', pyear)]
  /\ year' = fyear
  /\ value' = AtYear(pdata[pname'].value, fyear)
  /\ UNCHANGED <<inputs, pc, err, selection, new, factors, idx, bvalue, pvalue,
                 val_round, val, year_it, idx_it>>

\* lines 48-55, and the start of the loop of line 56
CloseOld ==
  /\ pc = "old"
  /\ params_it = <<>>
  /\ old' = [old EXCEPT !.state = "closed"]
  /\ final_ifactor' = RInt(1)
  /\ year_it' = pyear
  /\ pc' = "final_ifactor"
  /\ UNCHANGED <<inputs, err, selection, new, ifactor, factor, pname, year, idx,
                 scratch, params_it, idx_it>>

\* (mutant) the rate added instead of compounded
CompoundSimple(f, y) == RAdd(f, AtYear(irate, y))

\* f * (1 + irate[y - syear]) of lines 57 and 65
Compound(f, y) == RMul(f, RAdd(RInt(1), AtYear(irate, y)))

\* one iteration of the loop of lines 56-57
FinalFactorStep ==
  /\ pc = "final_ifactor"
  /\ year_it < fyear
  /\ year' = year_it
  /\ year_it' = year_it + 1
  /\ IF year_it - syear >= Len(irate)
     THEN /\ Raise("IndexError", 57)
          /\ final_ifactor' = final_ifactor
     ELSE /\ final_ifactor' = Compound(final_ifactor, year_it)
          /\ UNCHANGED <<pc, err>>
  /\ UNCHANGED <<inputs, selection, old, new, ifactor, factor, pname, idx,
                 scratch, params_it, idx_it>>

\* lines 61-62, and the start of the loop of line 63
StartWindow ==
  /\ pc = "final_ifactor"
  /\ year_it >= fyear
  /\ ifactor' = <<>>
  /\ factor' = RInt(1)
  /\ year_it' = byear
  /\ pc' = "ifactor"
  /\ UNCHANGED <<inputs, err, selection, old, new, final_ifactor, pname, year,
                 idx, scratch, params_it, idx_it>>

\* one iteration of the loop of lines 63-65
WindowFactorStep ==
  /\ pc = "ifactor"
  /\ year_it < fyear
  /\ year' = year_it
  /\ year_it' = year_it + 1
  /\ ifactor' = [y \in DOMAIN ifactor \cup {year_it} |->
                   IF y = year_it THEN factor ELSE ifactor[y]]
  /\ IF year_it - syear >= Len(irate)
     THEN /\ Raise("IndexError", 65)
          /\ factor' = factor
     ELSE /\ factor' = Compound(factor, year_it)
          /\ UNCHANGED <<pc, err>>
  /\ UNCHANGED <<inputs, selection, old, new, final_ifactor, pname, idx,
                 scratch, params_it, idx_it>>

\* line 115, and the start of the loop of line 116
OpenNew ==
  /\ pc = "ifactor"
  /\ year_it >= fyear
  /\ new' = [state |-> "open", lines |-> <<>>]
  /\ params_it' = reverting_params
  /\ pc' = "new"
  /\ UNCHANGED <<inputs, err, selection, old, factors, pname, year, idx,
                 scratch, year_it, idx_it>>

\* lines 116-120, and the start of the loop of line 122
BeginParam ==
  /\ pc = "new"
  /\ params_it # <<>>
  /\ pname' = Head(params_it)
  /\ params_it' = Tail(params_it)
  /\ value' = AtYear(pdata[pname'].value, pyear)
  /\ new' = Write(Write(new, Header(pname')), Line(pyear, value'))
  /\ year_it' = pyear + 1
  /\ pc' = "copy"
  /\ UNCHANGED <<inputs, err, selection, old, factors, year, idx, bvalue,
                 pvalue, val_round, val, idx_it>>

\* one iteration of the loop of lines 122-124
CopyYear ==
  /\ pc = "copy"
  /\ year_it <= byear
  /\ year' = year_it
  /\ year_it' = year_it + 1
  /\ value' = AtYear(pdata[pname].value, year_it)
  /\ new' = Write(new, Line(year_it, value'))
  /\ UNCHANGED <<inputs, pc, err, selection, old, factors, pname, idx, bvalue,
                 pvalue, val_round, val, params_it, idx_it>>

\* (mutant) the base value of the first reverting parameter
BaseValueOfFirst(pd) == AtYear(pd[reverting_params[1]].value, byear)

\* (mutant) the final year computed from the base-year value
PriorValueFromBase(pd) == AtYear(pd[pname].value, byear)

\* pdata[pname]['value'][byear - syear] of line 126
BaseValue(pd) == AtYear(pd[pname].value, byear)

\* pdata[pname]['value'][pyear - syear] of line 152
PriorValue(pd) == AtYear(pd[pname].value, pyear)

\* line 126, and the start of the loop of line 127
FetchBase ==
  /\ pc = "copy"
  /\ year_it > byear
  /\ bvalue' = BaseValue(pdata)
  /\ year_it' = byear + 1
  /\ pc' = "interm"
  /\ UNCHANGED <<inputs, err, selection, old, new, factors, pname, year, idx,
                 value, pvalue, val_round, val, params_it, idx_it>>

\* the head of the loop of line 127 and the test of line 128; for a list,
\* line 129 and the start of the loop of line 130
IntermYear ==
  /\ pc = "interm"
  /\ year_it < fyear
  /\ year' = year_it
  /\ year_it' = year_it + 1
  /\ IF bvalue.list
     THEN /\ value' = List(<<>>)
          /\ idx_it' = 0
          /\ pc' = "interm_cols"
     ELSE /\ pc' = "interm_scalar"
          /\ UNCHANGED <<value, idx_it>>
  /\ UNCHANGED <<inputs, err, selection, old, new, factors, pname, idx, bvalue,
                 pvalue, val_round, val, params_it>>

\* lines 142-150 for a scalar base value
IntermScalar ==
  /\ pc = "interm_scalar"
  /\ IF HasDir(pdata) /\ Named(pdata) /\ RoundToMissing(pdata, bvalue)
     THEN /\ Raise("IndexError", RoundLine(pdata, bvalue))
          /\ UNCHANGED <<value, new>>
     ELSE /\ value' =
               IF ~HasDir(pdata)
               THEN Scalar(DefaultIntermediate(RMul(bvalue.x, ifactor[year])))
               ELSE IF Named(pdata)
               THEN Scalar(Dispatch(pdata, bvalue, Dict(ifactor), value.x))
               ELSE value
          /\ new' = Write(new, Line(year, value'))
          /\ pc' = "interm"
          /\ err' = err
  /\ UNCHANGED <<inputs, selection, old, factors, pname, year, idx, bvalue,
                 pvalue, val_round, val, params_it, year_it, idx_it>>

\* the head of the loop of line 130
IntermColumn ==
  /\ pc = "interm_cols"
  /\ idx_it < Len(bvalue.xs)
  /\ idx' = idx_it
  /\ idx_it' = idx_it + 1
  /\ pc' = "interm_col"
  /\ UNCHANGED <<inputs, err, selection, old, new, factors, pname, year,
                 scratch, params_it, year_it>>

\* lines 131-140 for one column
IntermColumnBody ==
  /\ pc = "interm_col"
  /\ IF HasDir(pdata) /\ Named(pdata) /\ RoundToMissing(pdata, bvalue)
     THEN /\ Raise("IndexError", RoundLine(pdata, bvalue))
          /\ UNCHANGED <<value, val_round>>
     ELSE IF HasDir(pdata) /\ ~Named(pdata) /\ val_round = Unbound
     THEN /\ Raise("NameError", 140)
          /\ UNCHANGED <<value, val_round>>
     ELSE /\ val_round' =
               IF HasDir(pdata)
               THEN Dispatch(pdata, bvalue, Dict(ifactor), val_round)
               ELSE DefaultIntermediate(RMul(bvalue.xs[idx + 1], ifactor[year]))
          /\ value' = List(Append(value.xs, val_round'))
          /\ pc' = "interm_cols"
          /\ err' = err
  /\ UNCHANGED <<inputs, selection, old, new, factors, pname, year, idx, bvalue,
                 pvalue, val, params_it, year_it, idx_it>>

\* the end of the loop of line 130, and line 150
IntermWrite ==
  /\ pc = "interm_cols"
  /\ idx_it >= Len(bvalue.xs)
  /\ new' = Write(new, Line(year, value))
  /\ pc' = "interm"
  /\ UNCHANGED <<inputs, err, selection, old, factors, pname, year, idx,
                 scratch, params_it, year_it, idx_it>>

\* the end of the loop of line 127, lines 152-153; for a list, line 154 and
\* the start of the loop of line 155
FetchPrior ==
  /\ pc = "interm"
  /\ year_it >= fyear
  /\ pvalue' = PriorValue(pdata)
  /\ IF pvalue'.list
     THEN /\ value' = List(<<>>)
          /\ idx_it' = 0
          /\ pc' = "final_cols"
     ELSE /\ pc' = "final_scalar"
          /\ UNCHANGED <<value, idx_it>>
  /\ UNCHANGED <<inputs, err, selection, old, new, factors, pname, year, idx,
                 bvalue, val_round, val, params_it, year_it>>

\* lines 164-172 for a scalar prior-year value
FinalScalar ==
  /\ pc = "final_scalar"
  /\ IF HasDir(pdata) /\ Named(pdata) /\ RoundToMissing(pdata, pvalue)
     THEN /\ Raise("IndexError", RoundLine(pdata, pvalue))
          /\ UNCHANGED <<value, new>>
     ELSE /\ value' =
               IF ~HasDir(pdata)
               THEN Scalar(DefaultFinal(RMul(pvalue.x, final_ifactor)))
               ELSE IF Named(pdata)
               THEN Scalar(Dispatch(pdata, pvalue, Float(final_ifactor), value.x))
               ELSE value
          /\ new' = Write(new, Line(fyear, value'))
          /\ pc' = "new"
          /\ err' = err
  /\ UNCHANGED <<inputs, selection, old, factors, pname, year, idx, bvalue,
                 pvalue, val_round, val, params_it, year_it, idx_it>>

\* the head of the loop of line 155
FinalColumn ==
  /\ pc = "final_cols"
  /\ idx_it < Len(pvalue.xs)
  /\ idx' = idx_it
  /\ idx_it' = idx_it + 1
  /\ pc' = "final_col"
  /\ UNCHANGED <<inputs, err, selection, old, new, factors, pname, year,
                 scratch, params_it, year_it>>

\* lines 156-163 for one column
FinalColumnBody ==
  /\ pc = "final_col"
  /\ IF HasDir(pdata) /\ Named(pdata) /\ RoundToMissing(pdata, pvalue)
     THEN /\ Raise("IndexError", RoundLine(pdata, pvalue))
          /\ UNCHANGED <<value, val>>
     ELSE IF HasDir(pdata) /\ ~Named(pdata) /\ val = Unbound
     THEN /\ Raise("NameError", 163)
          /\ UNCHANGED <<value, val>>
     ELSE /\ val' =
               IF HasDir(pdata)
               THEN Dispatch(pdata, pvalue, Float(final_ifactor), val)
               ELSE DefaultFinal(RMul(pvalue.xs[idx + 1], final_ifactor))
          /\ value' = List(Append(value.xs, val'))
          /\ pc' = "final_cols"
          /\ err' = err
  /\ UNCHANGED <<inputs, selection, old, new, factors, pname, year, idx, bvalue,
                 pvalue, val_round, params_it, year_it, idx_it>>

\* the end of the loop of line 155, and line 172
FinalWrite ==
  /\ pc = "final_cols"
  /\ idx_it >= Len(pvalue.xs)
  /\ new' = Write(new, Line(fyear, value))
  /\ pc' = "new"
  /\ UNCHANGED <<inputs, err, selection, old, factors, pname, year, idx,
                 scratch, params_it, year_it, idx_it>>

\* the end of the loop of line 116, and line 173
CloseNew ==
  /\ pc = "new"
  /\ params_it = <<>>
  /\ new' = [new EXCEPT !.state = "closed"]
  /\ pc' = "done"
  /\ UNCHANGED <<inputs, err, selection, old, factors, pname, year, idx,
                 scratch, params_it, year_it, idx_it>>

Next ==
  \/ AssertYears
  \/ SelectParam
  \/ OpenOld
  \/ WriteOld
  \/ CloseOld
  \/ FinalFactorStep
  \/ StartWindow
  \/ WindowFactorStep
  \/ OpenNew
  \/ BeginParam
  \/ CopyYear
  \/ FetchBase
  \/ IntermYear
  \/ IntermScalar
  \/ IntermColumn
  \/ IntermColumnBody
  \/ IntermWrite
  \/ FetchPrior
  \/ FinalScalar
  \/ FinalColumn
  \/ FinalColumnBody
  \/ FinalWrite
  \/ CloseNew

Spec == Init /\ [][Next]_vars

----------------------------------------------------------------------------
(* The rounding functions on their own: a value, a factor, a granularity,  *)
(* a shape and a rounding direction are drawn, the function is applied as  *)
(* line 167 or 169 applies it, and applied again to its own result with a  *)
(* factor of 1.0.                                                          *)

RoundValues ==
  {R(n, 2) : n \in 2088 .. 2112} \cup {R(-n, 2) : n \in 2098 .. 2102}
    \cup {RInt(0), RInt(1020), RInt(1080), RInt(1500), RInt(12345), Cap}

RoundFactors == {RInt(1), R(3, 2)}

\* granularities with the Python type of each: whole ones as int and as
\* float, the half as float
RoundGrids ==
  ({RInt(1), RInt(3), RInt(25), RInt(100)} \X BOOLEAN) \cup {<<R(1, 2), FALSE>>}

\* a one-year value of the drawn shape holding x (in column col of a list)
Shaped(list, col, x, other) ==
  IF list
  THEN List([c \in 1 .. MaxCols |-> IF c = col + 1 THEN x ELSE other])
  ELSE Scalar(x)

InitRound ==
  \E x \in RoundValues, f \in RoundFactors, g \in RoundGrids,
     dir \in {"down", "nearest"}, list \in BOOLEAN, col \in 0 .. (MaxCols - 1) :
    /\ pdata = [n \in {"_STD"} |->
                  RecDir(TRUE, <<Shaped(list, col, x, RInt(0))>>, {},
                         IF list THEN Shaped(list, col, g[1], RInt(1)).xs ELSE <<g[1]>>,
                         g[2], dir)]
    /\ pname = "_STD"
    /\ idx = IF list THEN col ELSE 0
    /\ value = Shaped(list, col, x, RInt(0))
    /\ final_ifactor = f
    /\ pc = "round"
    /\ byear = pyear + 2
    /\ irate = <<>>
    /\ err = NoError
    /\ keys_it = <<>>
    /\ reverting_params = <<>>
    /\ old = Unopened
    /\ new = Unopened
    /\ ifactor = <<>>
    /\ factor = RInt(0)
    /\ year = 0
    /\ bvalue = Scalar(RInt(0))
    /\ pvalue = Scalar(RInt(0))
    /\ val_round = Unbound
    /\ val = Unbound
    /\ params_it = <<>>
    /\ year_it = 0
    /\ idx_it = 0
    /\ once = RInt(0)
    /\ twice = RInt(0)
    /\ NoCalculator

\* round_down or round_nearest applied to the drawn value
RoundOnce ==
  /\ pc = "round"
  /\ once' = Dispatch(pdata, value, Float(final_ifactor), once)
  /\ pc' = "rounded"
  /\ UNCHANGED <<byear, pdata, irate, twice, calc, err, selection, old, new, factors,
                 pname, year, idx, scratch, params_it, year_it, idx_it>>

\* the same function applied to its own result
RoundTwice ==
  /\ pc = "rounded"
  /\ twice' = Dispatch(pdata, Shaped(value.list, idx, once, RInt(0)), Float(RInt(1)), twice)
  /\ pc' = "rerounded"
  /\ UNCHANGED <<byear, pdata, irate, once, calc, err, selection, old, new, factors,
                 pname, year, idx, scratch, params_it, year_it, idx_it>>

NextRound == RoundOnce \/ RoundTwice

SpecRound == InitRound /\ [][NextRound]_vars

----------------------------------------------------------------------------
(* The customized Calculator of ptax_exemp.py: one calculator over one     *)
(* filing unit, advanced to later years and asked to calc_all.             *)

reform_year == 2019
cyr_last == 2028

\* inflation rates of the policy by (year - syr), up to cyr_last
PolicyRates ==
  { [i \in 1 .. (cyr_last - syear + 1) |-> DZero],
    [i \in 1 .. (cyr_last - syear + 1) |-> Dyadic(1, 1)],
    [i \in 1 .. (cyr_last - syear + 1) |-> IF i % 2 = 0 THEN Dyadic(1, 2) ELSE DZero],
    [i \in 1 .. (cyr_last - syear + 1) |-> Dyadic(3, 7)] }

\* policy parameters read by pseudo_ptax_amount
Policies ==
  { [SS_Earnings_c |-> DInt(20000), FICA_ss_trt |-> Dyadic(1, 3),
     FICA_mc_trt |-> Dyadic(1, 5)] }

Unit(sp, ss, wp, ws) ==
  [e00900p |-> DInt(sp), e02100p |-> DZero, k1bx14p |-> DZero,
   e00900s |-> DInt(ss), e02100s |-> DZero, k1bx14s |-> DZero,
   e00200p |-> DInt(wp), pencon_p |-> DInt(500),
   e00200s |-> DInt(ws), pencon_s |-> DZero,
   ptax_oasdi |-> DZero]

FilingUnits ==
  { Unit(0, 0, 12000, 0), Unit(9000, -300, 30000, 7000), Unit(7000, 6000, 0, 18000) }

\* (mutant) the exemption compounded from the amount of the previous call
specify_from_previous(param, this_year, active, irates) ==
  [FICA_ss_em |->
     IF active /\ this_year >= reform_year
     THEN np_round(DMul(IF "FICA_ss_em" \in DOMAIN param /\ param.FICA_ss_em # DZero
                        THEN param.FICA_ss_em ELSE DInt(5000),
                        DAdd(DInt(1), AtYear(irates, this_year))))
     ELSE DZero,
   FICA_ss_em_employer |-> TRUE]

RECURSIVE Indexed(_, _, _, _)
\* the loop of lines 42-43: value *= (1.0 + irates[year - syr]) for the
\* years of [from, to), the last year applied to what the years before it
\* have made of the value
Indexed(v, from, to, irates) ==
  IF from >= to THEN v
  ELSE DMul(Indexed(v, from, to - 1, irates), DAdd(DInt(1), AtYear(irates, to - 1)))

\* Calculator.specify_pseudo_ptax_policy: the new ptax_em_param, whatever
\* the old one was (lines 28-33)
specify_pseudo_ptax_policy(param, this_year, active, irates) ==
  [FICA_ss_em |->
     IF active /\ this_year >= reform_year
     THEN np_round(Indexed(DInt(5000), reform_year, this_year, irates))
     ELSE DZero,
   FICA_ss_em_employer |-> TRUE]

\* np.where(c, a, b) on one filing unit
Where(c, a, b) == IF c THEN a ELSE b

Half == Dyadic(1, 1)

\* lines 59-60 and 67-68: self-employment income and gross wages of the
\* taxpayer (p) and of the spouse (s)
sey_p(r) == DAdd(DAdd(r.e00900p, r.e02100p), r.k1bx14p)
sey_s(r) == DAdd(DAdd(r.e00900s, r.e02100s), r.k1bx14s)
gross_was_p(r) == DAdd(r.e00200p, r.pencon_p)
gross_was_s(r) == DAdd(r.e00200s, r.pencon_s)

\* lines 63-64 and 71-74: an amount adjusted for the exemption
Exempted(x, ptax_em) == Where(DLt(ptax_em, x), DSub(x, ptax_em), DZero)

\* lines 77-86: taxable earnings for OASDI FICA
txearn_was(p, gross_was) ==
  Where(DLt(p.SS_Earnings_c, gross_was), p.SS_Earnings_c, gross_was)

\* line 89
sey_frac(p) == DSub(DInt(1), DMul(Half, DAdd(p.FICA_ss_trt, p.FICA_mc_trt)))

\* lines 92, 96, 101, 106
temp1(sey, frac) == Where(DLt(DMul(sey, frac), DZero), DZero, DMul(sey, frac))

\* lines 93, 97, 102, 107
temp2(p, txearn) == DSub(p.SS_Earnings_c, txearn)

\* lines 94, 98, 103-104, 108-109
Lesser(t1, t2) == Where(DLt(t2, t1), t2, t1)

\* lines 92-109: taxable self-employment income for OASDI SECA
txearn_sey(p, sey, txearn) == Lesser(temp1(sey, sey_frac(p)), temp2(p, txearn))

\* lines 113-137: the employee and the employer portion on their bases
Portions(p, employee, employer) ==
  DAdd(DMul(DMul(p.FICA_ss_trt, Half), employee), DMul(DMul(p.FICA_ss_trt, Half), employer))

\* lines 134-135: ptax_ss_was_p or ptax_ss_was_s
ptax_ss_was(param, p, gross_was) ==
  Portions(p, txearn_was(p, Exempted(gross_was, param.FICA_ss_em)),
           IF param.FICA_ss_em_employer
           THEN txearn_was(p, Exempted(gross_was, param.FICA_ss_em))
           ELSE txearn_was(p, gross_was))

\* lines 136-137: setax_ss_p or setax_ss_s
setax_ss(param, p, sey, gross_was) ==
  Portions(p,
           txearn_sey(p, Exempted(sey, param.FICA_ss_em),
                      txearn_was(p, Exempted(gross_was, param.FICA_ss_em))),
           IF param.FICA_ss_em_employer
           THEN txearn_sey(p, Exempted(sey, param.FICA_ss_em),
                           txearn_was(p, Exempted(gross_was, param.FICA_ss_em)))
           ELSE txearn_sey(p, sey, txearn_was(p, gross_was)))

\* Calculator.pseudo_ptax_amount: the new recs.ptax_oasdi (line 139), for a
\* ptax_em_param that has both keys
pseudo_ptax_amount(param, p, r) ==
  DAdd(DAdd(DAdd(ptax_ss_was(param, p, gross_was_p(r)),
                 ptax_ss_was(param, p, gross_was_s(r))),
            setax_ss(param, p, sey_p(r), gross_was_p(r))),
       setax_ss(param, p, sey_s(r), gross_was_s(r)))

pppVars ==
  <<byear, pdata, err, keys_it, reverting_params, old, new, final_ifactor,
    ifactor, factor, pname, year, idx, value, bvalue, pvalue, val_round, val,
    params_it, year_it, idx_it, once, twice>>

\* Calculator.__init__ (lines 11-22) for calc1 or calc2 of lines 158-164.
\* The parent constructor is not among the sources: it is taken to keep the
\* policy and the records it is given and to start at the first year.
InitPtax ==
  /\ current_year = syear
  /\ ptax_em_active \in BOOLEAN
  /\ ptax_em_param = <<>>
  /\ pol \in Policies
  /\ recs \in FilingUnits
  /\ irate \in PolicyRates
  /\ pc = "constructed"
  /\ byear = pyear + 2
  /\ pdata = <<>>
  /\ err = NoError
  /\ keys_it = <<>>
  /\ reverting_params = <<>>
  /\ old = Unopened
  /\ new = Unopened
  /\ final_ifactor = RInt(0)
  /\ ifactor = <<>>
  /\ factor = RInt(0)
  /\ pname = ""
  /\ year = 0
  /\ idx = 0
  /\ value = Scalar(RInt(0))
  /\ bvalue = Scalar(RInt(0))
  /\ pvalue = Scalar(RInt(0))
  /\ val_round = Unbound
  /\ val = Unbound
  /\ params_it = <<>>
  /\ year_it = 0
  /\ idx_it = 0
  /\ once = RInt(0)
  /\ twice = RInt(0)

\* calc.advance_to_year(cyr) of lines 171 and 173, for any later year.  The
\* inherited method is not among the sources: it is taken to move
\* current_year and to leave the fields of the recipe alone.
AdvanceToYear ==
  /\ \E cyr \in (current_year + 1) .. cyr_last : current_year' = cyr
  /\ pc' = "advanced"
  /\ UNCHANGED <<ptax_em_active, ptax_em_param, pol, recs, irate, pppVars>>

\* a call of the public method specify_pseudo_ptax_policy (lines 24-48) on
\* its own: ptax_oasdi stays as it was
SpecifyPseudoPtaxPolicy ==
  /\ ptax_em_param' =
       specify_pseudo_ptax_policy(ptax_em_param, current_year, ptax_em_active, irate)
  /\ pc' = "specified"
  /\ UNCHANGED <<current_year, ptax_em_active, pol, recs, irate, pppVars>>

\* a call of the public method pseudo_ptax_amount (lines 50-139) on its own,
\* after some call has specified the exemption
PseudoPtaxAmount ==
  /\ "FICA_ss_em" \in DOMAIN ptax_em_param
  /\ recs' = [recs EXCEPT !.ptax_oasdi = pseudo_ptax_amount(ptax_em_param, pol, recs)]
  /\ pc' = "computed"
  /\ UNCHANGED <<current_year, ptax_em_active, ptax_em_param, pol, irate, pppVars>>

\* the same call on a calculator whose ptax_em_param is still the empty
\* dictionary of line 22: line 55 raises KeyError('FICA_ss_em') and nothing
\* has changed
PseudoPtaxAmountKeyError ==
  /\ "FICA_ss_em" \notin DOMAIN ptax_em_param
  /\ pc' = "KeyError"
  /\ UNCHANGED <<current_year, ptax_em_active, ptax_em_param, pol, recs, irate, pppVars>>

\* Calculator.calc_all: the calls of lines 152 and 154, one after the
\* other.  The taxcalc functions of lines 145-150 and 155-156 are not among
\* the sources: what they compute is outside the state of the model, and
\* line 139 assigns ptax_oasdi after the former and before the latter.
CalcAll ==
  /\ ptax_em_param' =
       specify_pseudo_ptax_policy(ptax_em_param, current_year, ptax_em_active, irate)
  /\ recs' = [recs EXCEPT !.ptax_oasdi = pseudo_ptax_amount(ptax_em_param', pol, recs)]
  /\ pc' = "calculated"
  /\ UNCHANGED <<current_year, ptax_em_active, pol, irate, pppVars>>

NextPtax ==
  \/ AdvanceToYear
  \/ SpecifyPseudoPtaxPolicy
  \/ PseudoPtaxAmount
  \/ PseudoPtaxAmountKeyError
  \/ CalcAll

SpecPtax == InitPtax /\ [][NextPtax]_vars

----------------------------------------------------------------------------
(* What the specification says a run produces, stated without the script's *)
(* loops and module-level names                                            *)

RECURSIVE Product(_, _)
\* the product of (1 + rate[t]) over t in [a, b)
Product(a, b) ==
  IF a >= b THEN RInt(1)
  ELSE RMul(Product(a, b - 1), RAdd(RInt(1), irate[b - 1 - syear + 1]))

\* RoundDown: floor(value / granularity) * granularity, clamped
GridDown(x, g, gint) == RMin(Times(PyFloor(RDiv(x, g)), g, gint), Cap)

\* RoundNearest: ceil(value / granularity) * granularity, less one
\* granularity when 0 < value mod granularity < granularity / 2, clamped
GridNearest(x, g, gint) ==
  LET m  == RMod(x, g)
      up == Times(PyCeil(RDiv(x, g)), g, gint)
  IN  RMin(IF RLt(RInt(0), m) /\ RLt(RMul(RInt(2), m), g)
           THEN Minus(up, g, gint) ELSE up, Cap)

\* the rounding policy of a record applied to column c of a projected amount
Policy(rec, c, x, final) ==
  LET g == rec.round_to[IF c <= Len(rec.round_to) THEN c ELSE 1]
  IN  IF "round_dir" \in DOMAIN rec
      THEN (IF rec.round_dir = "down"
            THEN GridDown(x, g, rec.round_to_int)
            ELSE GridNearest(x, g, rec.round_to_int))
      ELSE RMin(Cap, PyRound(x, IF final THEN 1 ELSE 100))

Project(rec, v, f, final) ==
  IF v.list
  THEN List([c \in 1 .. Len(v.xs) |-> Policy(rec, c, RMul(v.xs[c], f), final)])
  ELSE Scalar(Policy(rec, 1, RMul(v.x, f), final))

\* the projected value of year y for a record
Expected(rec, y) ==
  IF y <= byear THEN AtYear(rec.value, y)
  ELSE IF y < fyear
  THEN Project(rec, AtYear(rec.value, byear), Product(byear, y), FALSE)
  ELSE Project(rec, AtYear(rec.value, pyear), Product(pyear, fyear), TRUE)

\* a block of a snapshot: the header and one line per year of [pyear, fyear]
BlockLen == fyear - pyear + 2

ExpectedLine(i) ==
  LET p == reverting_params[((i - 1) \div BlockLen) + 1]
      o == (i - 1) % BlockLen
  IN  IF o = 0 THEN Header(p) ELSE Line(pyear + o - 1, Expected(pdata[p], pyear + o - 1))

Complete(b) == Len(new.lines) >= b * BlockLen

BlockRows(b) == SubSeq(new.lines, (b - 1) * BlockLen + 2, b * BlockLen)

HeaderNames(file) ==
  LET hs == SelectSeq(file.lines, LAMBDA l : l.kind = "header")
  IN  [i \in 1 .. Len(hs) |-> hs[i].name]

RankOf(n) == CHOOSE i \in 1 .. Len(NameOrder) : NameOrder[i] = n

EligibleBySpec(n) ==
  /\ pdata[n].indexed
  /\ fyear \in pdata[n].value_yrs
  /\ n \notin {"_II_brk7", "_PT_brk7"}

SelectionDone == pc \notin {"assert", "select"} /\ err.type # "AssertionError"

Components(v) == IF v.list THEN {v.xs[c] : c \in 1 .. Len(v.xs)} ELSE {v.x}

----------------------------------------------------------------------------
(* Claims                                                                  *)

\* C3: every line written to ppp.new is the line the specification gives:
\* the blocks follow reverting_params, each holds the years pyear..fyear
\* once and in order, with the historical value up to byear, the rounding
\* policy applied to value[byear] * windowFactors[y] between byear and fyear,
\* and the rounding policy applied to value[pyear] * finalFactor in fyear;
\* a finished run has written every block.
C3_Projection ==
  /\ \A i \in 1 .. Len(new.lines) : new.lines[i] = ExpectedLine(i)
  /\ pc = "done" => Len(new.lines) = BlockLen * Len(reverting_params)

\* a finished run with two blocks whose final-year value differs from what
\* the base-year value would give and whose intermediate years were projected
C3_Witness ==
  /\ pc = "done"
  /\ Len(reverting_params) >= 2
  /\ \E b \in 1 .. Len(reverting_params) :
       LET rec == pdata[reverting_params[b]]
           fin == new.lines[b * BlockLen]
           mid == new.lines[b * BlockLen - 1]
       IN  /\ fin.year = fyear
           /\ fin.value # Project(rec, AtYear(rec.value, byear), Product(pyear, fyear), TRUE)
           /\ mid.year = fyear - 1
           /\ mid.value # AtYear(rec.value, byear)
           /\ rec.value[1].list

\* C7: no value of any line of ppp.new, in any column, exceeds the cap
C7_Clamp ==
  \A i \in 1 .. Len(new.lines) :
    new.lines[i].kind = "line" =>
      \A x \in Components(new.lines[i].value) : ~RLt(Cap, x)

\* a final-year line just written whose product exceeded the cap and was
\* clamped to it
C7_Witness ==
  /\ pc = "new"
  /\ new.lines # <<>>
  /\ ~pvalue.list
  /\ RLt(Cap, RMul(pvalue.x, final_ifactor))
  /\ new.lines[Len(new.lines)].year = fyear
  /\ new.lines[Len(new.lines)].value = Scalar(Cap)
  /\ "round_dir" \in DOMAIN pdata[pname]

\* C4: once the selection loop has ended, reverting_params holds exactly the
\* names that are indexed, have a value for fyear and are not excluded, in
\* sorted order; no other name ever heads a block of either snapshot, and a
\* complete snapshot has one block per selected name, in that order
C4_Eligibility ==
  /\ SelectionDone =>
       /\ {reverting_params[i] : i \in 1 .. Len(reverting_params)}
            = {n \in DOMAIN pdata : EligibleBySpec(n)}
       /\ \A i, j \in 1 .. Len(reverting_params) :
            i < j => RankOf(reverting_params[i]) < RankOf(reverting_params[j])
  /\ \A i \in 1 .. Len(old.lines) :
       old.lines[i].kind = "header" => EligibleBySpec(old.lines[i].name)
  /\ \A i \in 1 .. Len(new.lines) :
       new.lines[i].kind = "header" => EligibleBySpec(new.lines[i].name)
  /\ old.state = "closed" => HeaderNames(old) = reverting_params
  /\ new.state = "closed" => HeaderNames(new) = reverting_params

\* a finished run over a table with an excluded name that is indexed and has
\* a final-year value, and with a name that is not indexed
C4_Witness ==
  /\ pc = "done"
  /\ "_II_brk7" \in DOMAIN pdata
  /\ pdata["_II_brk7"].indexed
  /\ fyear \in pdata["_II_brk7"].value_yrs
  /\ ~pdata["_AMT_em"].indexed
  /\ reverting_params = <<"_STD">>

WindowBuilt == new.state # "unopened"

\* C9 as claimed: once the window factors are built, for every year y of
\* [byear, fyear) the factor of y + 1 is defined and equals the factor of y
\* times (1 + rate[y])
C9_AsClaimed ==
  WindowBuilt =>
    \A y \in byear .. (fyear - 1) :
      /\ (y + 1) \in DOMAIN ifactor
      /\ ifactor[y + 1] = RMul(ifactor[y], RAdd(RInt(1), AtYear(irate, y)))

\* C9 as amended: the factors are defined for the years of [byear, fyear)
\* only, the factor of byear is 1, and the recurrence holds for every year y
\* with y + 1 < fyear; no factor is stored for fyear
C9_Compounding ==
  WindowBuilt =>
    /\ DOMAIN ifactor = byear .. (fyear - 1)
    /\ ifactor[byear] = RInt(1)
    /\ \A y \in byear .. (fyear - 2) :
         ifactor[y + 1] = RMul(ifactor[y], RAdd(RInt(1), AtYear(irate, y)))

\* the factors are built over a window of several years with a rate that is
\* not zero, so that the factors differ
C9_Witness ==
  /\ WindowBuilt
  /\ byear + 2 < fyear
  /\ ifactor[byear + 2] # ifactor[byear + 1]
  /\ ifactor[byear + 1] # RInt(1)

ConfigurationError ==
  /\ pc = "aborted"
  /\ \/ err.type = "AssertionError"
     \/ err.type = "IndexError" /\ err.line \in {57, 65}

\* C2 as claimed: a run that fails with a configuration error has neither
\* opened nor written ppp.old or ppp.new
C2_AsClaimed ==
  ConfigurationError => old = Unopened /\ new = Unopened

\* C2 as amended: a run whose year window is not ordered never opens either
\* file and fails on the assertion; a run whose rate series is too short
\* fails while the final-year factor is built, after ppp.old has been written
\* in full and closed and before ppp.new is opened
C2_FailureOrder ==
  /\ ~(pyear < byear /\ byear < fyear) =>
       /\ old = Unopened /\ new = Unopened
       /\ pc \in {"assert", "aborted"}
       /\ pc = "aborted" => err.type = "AssertionError"
  /\ (pc = "aborted" /\ err.type = "IndexError" /\ err.line \in {57, 65}) =>
       /\ err.line = 57
       /\ Len(irate) < fyear - syear
       /\ old.state = "closed"
       /\ Len(old.lines) = BlockLen * Len(reverting_params)
       /\ new = Unopened

\* the run has failed on a rate series that is too short, with blocks
\* already written to ppp.old
C2_Witness ==
  /\ pc = "aborted"
  /\ err = [type |-> "IndexError", line |-> 57]
  /\ old.state = "closed"
  /\ Len(old.lines) >= BlockLen

\* the run is projecting a multi-column parameter with a round_dir whose
\* round_to has a single entry
SingleGranularity ==
  /\ new.state = "open"
  /\ pname \in DOMAIN pdata
  /\ "round_dir" \in DOMAIN pdata[pname]
  /\ pdata[pname].value[1].list
  /\ Len(pdata[pname].value[1].xs) >= 2
  /\ Len(pdata[pname].round_to) = 1

RoundingLines == {78, 85, 99, 109}

\* C1 as claimed: the projection of a multi-column parameter whose round_to
\* has length 1 rounds every column and raises no error
C1_AsClaimed ==
  SingleGranularity => err = NoError

\* what the code does instead (C1): round_down and round_nearest round
\* column idx with round_to[idx]; every column that has been rounded has its
\* own entry of round_to, and the run fails with IndexError in the rounding
\* function exactly at the first column without one, which for a round_to
\* of length 1 is column 1, after column 0 alone has been rounded with
\* round_to[0]
C1_PerColumnGranularity ==
  /\ (pc = "interm_cols" /\ "round_dir" \in DOMAIN pdata[pname] /\ value.xs # <<>>) =>
       /\ Len(value.xs) <= Len(pdata[pname].round_to)
       /\ value.xs[Len(value.xs)] =
            Policy(pdata[pname], Len(value.xs),
                   RMul(bvalue.xs[Len(value.xs)], ifactor[year]), FALSE)
  /\ (pc = "final_cols" /\ "round_dir" \in DOMAIN pdata[pname] /\ value.xs # <<>>) =>
       /\ Len(value.xs) <= Len(pdata[pname].round_to)
       /\ value.xs[Len(value.xs)] =
            Policy(pdata[pname], Len(value.xs),
                   RMul(pvalue.xs[Len(value.xs)], final_ifactor), TRUE)
  /\ (pc = "aborted" /\ err.line \in RoundingLines) =>
       /\ err.type = "IndexError"
       /\ value.list
       /\ idx = Len(pdata[pname].round_to)
       /\ Len(value.xs) = idx
  /\ (SingleGranularity /\ pc = "aborted") =>
       /\ idx = 1
       /\ value.xs =
            IF byear + 1 < fyear
            THEN <<Policy(pdata[pname], 1, RMul(bvalue.xs[1], ifactor[byear + 1]), FALSE)>>
            ELSE <<Policy(pdata[pname], 1, RMul(pvalue.xs[1], final_ifactor), TRUE)>>

\* round_nearest has failed at line 99 on column 1 of a two-column
\* parameter whose round_to has length 1, with column 0 rounded
C1_Witness ==
  /\ SingleGranularity
  /\ pc = "aborted"
  /\ err = [type |-> "IndexError", line |-> 99]
  /\ pdata[pname].round_dir = "nearest"
  /\ idx = 1
  /\ Len(value.xs) = 1
  /\ value.xs[1] # bvalue.xs[1]

\* round_down has failed at line 78 in the same way
C1_WitnessDown ==
  /\ SingleGranularity
  /\ pc = "aborted"
  /\ err = [type |-> "IndexError", line |-> 78]
  /\ pdata[pname].round_dir = "down"
  /\ idx = 1
  /\ Len(value.xs) = 1
  /\ value.xs[1] # bvalue.xs[1]

\* the script never assigns to its inputs, nor to the factors once built
ReadOnly ==
  /\ pdata' = pdata
  /\ irate' = irate
  /\ byear' = byear
  /\ WindowBuilt => ifactor' = ifactor /\ final_ifactor' = final_ifactor

\* the lines of a complete block are those of the parameter's own record
OwnRecord ==
  \A b \in 1 .. Len(reverting_params) :
    Complete(b) =>
      BlockRows(b) =
        [o \in 1 .. (BlockLen - 1) |->
           Line(pyear + o - 1, Expected(pdata[reverting_params[b]], pyear + o - 1))]

\* two parameters with the same record have the same lines, whatever their
\* place in the run and whatever is processed between them
SameRecordSameLines ==
  \A b1, b2 \in 1 .. Len(reverting_params) :
    (/\ Complete(b1)
     /\ Complete(b2)
     /\ pdata[reverting_params[b1]] = pdata[reverting_params[b2]])
    => BlockRows(b1) = BlockRows(b2)

\* C8: the lines projected for a parameter are a function of its own record
\* and the shared factors alone, parameters with equal records get equal
\* lines wherever they stand in the run, and no step of the run changes the
\* parameter table, the rate series or the factor mappings once built
C8_Independence ==
  /\ [](OwnRecord /\ SameRecordSameLines)
  /\ [][ReadOnly]_vars

\* a finished run in which the first and the third block belong to equal
\* records, with a different parameter projected between them
C8_Witness ==
  /\ pc = "done"
  /\ Len(reverting_params) = 3
  /\ pdata[reverting_params[1]] = pdata[reverting_params[3]]
  /\ pdata[reverting_params[2]] # pdata[reverting_params[1]]
  /\ BlockRows(1) = BlockRows(3)
  /\ BlockRows(2) # BlockRows(1)

\* the amount a rounding run rounds, and its granularity
Drawn == RMul(IF value.list THEN value.xs[idx + 1] ELSE value.x, final_ifactor)
Granularity == pdata[pname].round_to[IF value.list THEN idx + 1 ELSE 1]

\* |a - b| <= g / 2, for two ordinary amounts or two huge integers
Near(a, b, g) ==
  IF IsBig(a) /\ IsBig(b)
  THEN /\ ~BLt(BAdd(BMul(a.big, 2 * g.d), g.n), BMul(b.big, 2 * g.d))
       /\ ~BLt(BAdd(BMul(b.big, 2 * g.d), g.n), BMul(a.big, 2 * g.d))
  ELSE /\ ~IsBig(a)
       /\ ~IsBig(b)
       /\ ~RLt(g, RMul(RInt(2), RSub(a, b)))
       /\ ~RLt(g, RMul(RInt(2), RSub(b, a)))

\* r is the multiple of g that the claim gives for x: within g / 2 of x, x
\* itself when x is on the grid, the grid point below when
\* 0 < x mod g < g / 2, the grid point above when x mod g >= g / 2
NearestGridPoint(r, x, g) ==
  /\ RMod(r, g) = RInt(0)
  /\ Near(r, x, g)
  /\ RMod(x, g) = RInt(0) => r = x
  /\ (RLt(RInt(0), RMod(x, g)) /\ RLt(RMul(RInt(2), RMod(x, g)), g)) => RLt(r, x)
  /\ ~RLt(RMul(RInt(2), RMod(x, g)), g) => RLt(x, r)
  /\ (x = RInt(1050) /\ g = RInt(100)) => r = RInt(1100)
  /\ (x = RInt(1020) /\ g = RInt(100)) => r = RInt(1000)

\* C5 as claimed: every result of round_nearest below the cap is the nearest
\* multiple of g to the value: the value itself when it is on the grid, the
\* grid point below when 0 < value mod g < g/2, the grid point above when
\* value mod g >= g/2 (so the midpoint goes up: 1050 gives 1100 and 1020
\* gives 1000 for g = 100), in the scalar branch and in the per-column
\* branch alike
C5_AsClaimed ==
  (/\ pc \in {"rounded", "rerounded"}
   /\ pdata[pname].round_dir = "nearest"
   /\ RLt(once, Cap)) =>
    NearestGridPoint(once, Drawn, Granularity)

\* C5 on ordinary amounts, where the float arithmetic of the script is
\* exact: there the result of round_nearest is the nearest grid point
C5_OrdinaryAmounts ==
  (/\ pc \in {"rounded", "rerounded"}
   /\ pdata[pname].round_dir = "nearest"
   /\ ~IsBig(Drawn)) =>
    NearestGridPoint(once, Drawn, Granularity)

\* round_nearest has rounded the sentinel 9e99 on an int grid of 100 to a
\* multiple of 100 below the cap that is not within 50 of it
C5_Witness ==
  /\ pc = "rounded"
  /\ pdata[pname].round_dir = "nearest"
  /\ pdata[pname].round_to_int
  /\ Granularity = RInt(100)
  /\ Drawn = Cap
  /\ RLt(once, Cap)
  /\ RMod(once, Granularity) = RInt(0)
  /\ ~Near(once, Drawn, Granularity)

\* C6 as claimed: rounding the result again gives the result, also when the
\* first application was clamped to the cap
C6_AsClaimed ==
  pc = "rerounded" => twice = once

\* C6 on ordinary amounts, where the float arithmetic of the script is
\* exact: there rounding the result again gives the result
C6_OrdinaryAmounts ==
  (pc = "rerounded" /\ ~IsBig(Drawn)) => twice = once

\* the first application was clamped to the cap and the second one, on an
\* int grid, has moved the cap to a smaller value
C6_Witness ==
  /\ pc = "rerounded"
  /\ RLt(Cap, Drawn)
  /\ once = Cap
  /\ pdata[pname].round_to_int
  /\ RLt(twice, once)

RECURSIVE Compounded(_, _, _)
\* v times (1 + rate[y]) for each year y of [from, to), without rounding
Compounded(v, from, to) ==
  IF from >= to THEN v
  ELSE XMul(Compounded(v, from, to - 1), XAdd(DInt(1), AtYear(irate, to - 1)))

\* the exemption of a year as claimed: 5000 compounded, not rounded
ClaimedExemption ==
  IF ptax_em_active /\ current_year >= reform_year
  THEN Compounded(DInt(5000), reform_year, current_year)
  ELSE DZero

\* the float of the whole number of cents nearest to x
NearestCent(x) == DDiv(DRint(XMul(x, DInt(100))), DInt(100))

\* the exemption of a year: 5000 compounded and rounded to the nearest cent
RoundedExemption == NearestCent(ClaimedExemption)

\* C10 as claimed: after a calc_all the exemption is 0 when the flag is off
\* or the year is before 2019, and otherwise 5000 compounded by (1 + rate[y])
\* for each y from 2019 up to the current year
C10_AsClaimed ==
  pc = "calculated" => ptax_em_param.FICA_ss_em = ClaimedExemption

\* C10 as amended: after a calc_all, whatever calls came before, the
\* exemption is 0 when the flag is off or the year is before 2019, 5000 in
\* 2019, and otherwise 5000 compounded by (1 + rate[y]) for each y from 2019
\* up to the current year and then rounded to the nearest cent; and the
\* payroll-tax amount is the one computed from that exemption
C10_Exemption ==
  pc = "calculated" =>
    /\ ptax_em_param.FICA_ss_em = RoundedExemption
    /\ ptax_em_param.FICA_ss_em_employer
    /\ (ptax_em_active /\ current_year = reform_year) =>
         ptax_em_param.FICA_ss_em = DInt(5000)
    /\ recs.ptax_oasdi =
         pseudo_ptax_amount([FICA_ss_em |-> RoundedExemption,
                             FICA_ss_em_employer |-> TRUE], pol, recs)

\* a calc_all of an active calculator in a year whose compounded exemption
\* is not a whole number of cents, with a payroll tax left to pay
C10_Witness ==
  /\ pc = "calculated"
  /\ ptax_em_active
  /\ current_year > reform_year
  /\ ptax_em_param.FICA_ss_em # ClaimedExemption
  /\ DLt(DZero, recs.ptax_oasdi)

====
